---- MODULE Spec2Model ----
(***************************************************************************)
(* vSMR+ (src/vsmrplus.cpp, version 0.3.3): the configuration loader       *)
(* Plugin::load and the event handlers around it, as a state machine.      *)
(*                                                                         *)
(* Text is modelled at character level: a line is a sequence of one-       *)
(* character strings, a token a non-empty sequence of characters, the      *)
(* configuration file a sequence of lines.                                 *)
(***************************************************************************)
EXTENDS Integers, Sequences, FiniteSets, TLC

VARIABLES
    hotspot,            \* Plugin::hotspot          std::vector<Hotspot>
    hotspot_by_name,    \* Plugin::hotspot_by_name  label -> element of hotspot (its index)
    closed,             \* Plugin::closed           std::vector<std::vector<CPosition>>
    stands,             \* Plugin::stands           aerodrome -> (stand id -> StandInfo)
    file,               \* the <dll>.txt file on disk: its lines
    file_opened,        \* whether the last Plugin::load could open the file
    sector_active,      \* sector database: names of the airports active for arr or dep
    ctr_range,          \* ControllerMyself().GetRange()
    running,            \* FALSE once the host process has been taken down
    last_event,         \* the event dispatched last by the host (or an edit of the file)
    load_exit,          \* where the last Plugin::load left: done, nopath, or the fault
    lines_read,         \* lines the last Plugin::load had taken from the file when it left
    warned,             \* Plugin::warn calls made by the last Plugin::load
    range_at_load,      \* ControllerMyself().GetRange() as the last Plugin::load read it
    ad_pressure,        \* Plugin::ad_pressure      aerodrome -> two characters
    ac_pressure,        \* Plugin::ac_pressure      callsign -> two characters
    dehighlight,        \* Plugin::dehighlight      set of callsigns
    ground,             \* flight plans of the host: callsign -> ground state
    out,                \* what the last handler gave back to the host
    event_arg           \* the arguments of the event dispatched last

vars == << hotspot, hotspot_by_name, closed, stands, file, file_opened,
           sector_active, ctr_range, running, last_event, load_exit, lines_read, warned,
           range_at_load, ad_pressure, ac_pressure, dehighlight, ground, out, event_arg >>

derived == << hotspot, hotspot_by_name, closed, stands >>

\* What Plugin::load leaves alone.
ledger == << ad_pressure, ac_pressure, dehighlight, ground, out, event_arg >>

\* What only Plugin::load writes.
loaded == << hotspot, hotspot_by_name, closed, stands, file_opened, load_exit,
             lines_read, warned, range_at_load >>

(***************************************************************************)
(* Characters                                                              *)
(***************************************************************************)

\* The characters of the model's texts, by ASCII code.
Digits == << "0", "1", "2", "3", "4", "5", "6", "7", "8", "9" >>
Upper  == << "A", "B", "C", "D", "E", "F", "G", "H", "I", "J", "K", "L", "M",
             "N", "O", "P", "Q", "R", "S", "T", "U", "V", "W", "X", "Y", "Z" >>
Lower  == << "a", "b", "c", "d", "e", "f", "g", "h", "i", "j", "k", "l", "m",
             "n", "o", "p", "q", "r", "s", "t", "u", "v", "w", "x", "y", "z" >>

IndexIn(seq, c) == CHOOSE i \in 1..Len(seq) : seq[i] = c
IsIn(seq, c) == \E i \in 1..Len(seq) : seq[i] = c

\* The code of a character (a char converted to int).
Ord(c) ==
    IF IsIn(Digits, c) THEN 47 + IndexIn(Digits, c)
    ELSE IF IsIn(Upper, c) THEN 64 + IndexIn(Upper, c)
    ELSE IF IsIn(Lower, c) THEN 96 + IndexIn(Lower, c)
    ELSE IF c = "\t" THEN 9
    ELSE IF c = "\f" THEN 12
    ELSE IF c = " " THEN 32
    ELSE IF c = "+" THEN 43
    ELSE IF c = "-" THEN 45
    ELSE IF c = "." THEN 46
    ELSE IF c = ";" THEN 59
    ELSE 95  \* "_"

\* What operator>> of std::istream skips between tokens: isspace in the C locale.
IsSpace(c) == c \in {" ", "\t", "\n", "\f", "\r"}

\* The delimiters the details search of the S record uses: tab and blank.
DetailDelims == {"\t", " "}

\* std::vector<std::string> parts(std::istream_iterator<std::string>(buf), {})
RECURSIVE Split(_, _, _)
Split(s, cur, acc) ==
    IF s = << >> THEN (IF cur = << >> THEN acc ELSE Append(acc, cur))
    ELSE IF IsSpace(Head(s))
         THEN Split(Tail(s), << >>, IF cur = << >> THEN acc ELSE Append(acc, cur))
         ELSE Split(Tail(s), Append(cur, Head(s)), acc)

Parts(line) == Split(line, << >>, << >>)

\* std::string::npos
NPOS == -1

\* line.find_first_of(set, offset): 0-based position, NPOS when there is none.
RECURSIVE FindFirstOf(_, _, _)
FindFirstOf(line, set, offset) ==
    IF offset = NPOS \/ offset >= Len(line) THEN NPOS
    ELSE IF line[offset + 1] \in set THEN offset
    ELSE FindFirstOf(line, set, offset + 1)

\* line.find_first_not_of(set, offset)
RECURSIVE FindFirstNotOf(_, _, _)
FindFirstNotOf(line, set, offset) ==
    IF offset = NPOS \/ offset >= Len(line) THEN NPOS
    ELSE IF line[offset + 1] \notin set THEN offset
    ELSE FindFirstNotOf(line, set, offset + 1)

\* The offset after i rounds of the loop of the S record (4 rounds in the code).
RECURSIVE DetailsOffset(_, _, _)
DetailsOffset(line, offset, i) ==
    IF i = 0 THEN offset
    ELSE DetailsOffset(line,
                       FindFirstNotOf(line, DetailDelims,
                                      FindFirstOf(line, DetailDelims, offset)),
                       i - 1)

(***************************************************************************)
(* Conversions                                                             *)
(***************************************************************************)

IsDigit(c) == IsIn(Digits, c)
IsHex(c) == IsDigit(c) \/ c \in {"a", "b", "c", "d", "e", "f", "A", "B", "C", "D", "E", "F"}

HexVal(c) ==
    IF IsDigit(c) THEN Ord(c) - 48
    ELSE IF IsIn(Lower, c) THEN Ord(c) - 97 + 10
    ELSE Ord(c) - 65 + 10

\* The longest prefix of hexadecimal digits: what strtoll consumes.
RECURSIVE HexPrefix(_)
HexPrefix(t) ==
    IF t = << >> \/ ~IsHex(Head(t)) THEN << >>
    ELSE << Head(t) >> \o HexPrefix(Tail(t))

RECURSIVE StripZeros(_)
StripZeros(t) == IF t # << >> /\ Head(t) = "0" THEN StripZeros(Tail(t)) ELSE t

\* The low 32 bits of a hexadecimal numeral, as two 16-bit halves.
RECURSIVE Low32(_, _)
Low32(t, w) ==
    IF t = << >> THEN w
    ELSE Low32(Tail(t),
               [hi |-> (w.hi * 16 + (w.lo * 16) \div 65536) % 65536,
                lo |-> (w.lo * 16 + HexVal(Head(t))) % 65536])

\* Two's complement of a 32-bit value.
Neg32(w) ==
    [hi |-> (65535 - w.hi + (IF w.lo = 0 THEN 1 ELSE 0)) % 65536,
     lo |-> (65536 - w.lo) % 65536]

\* std::stoll(token, nullptr, 16) assigned to a std::uint32_t: the value kept, or
\* the exception thrown.  A token is never empty and holds no white space.
Stoll16(tok) ==
    LET signed == tok[1] \in {"+", "-"}
        t1 == IF signed THEN Tail(tok) ELSE tok
        t2 == IF Len(t1) >= 3 /\ t1[1] = "0" /\ t1[2] \in {"x", "X"} /\ IsHex(t1[3])
              THEN SubSeq(t1, 3, Len(t1)) ELSE t1
        ds == HexPrefix(t2)
        sg == StripZeros(ds)
        mag == Low32(ds, [hi |-> 0, lo |-> 0])
        minll == Len(sg) = 16 /\ sg[1] = "8" /\ StripZeros(Tail(sg)) = << >>
    IN  IF ds = << >> THEN [thrown |-> "invalid_argument"]
        ELSE IF Len(sg) > 16 \/ (Len(sg) = 16 /\ HexVal(sg[1]) >= 8
                                  /\ ~(tok[1] = "-" /\ minll))
             THEN [thrown |-> "out_of_range"]
        ELSE [thrown |-> "none", value |-> IF tok[1] = "-" THEN Neg32(mag) ELSE mag]

\* parts[3][0] - '0' stored in the bit-field size_t colour : 8
ColourField(tok) == (Ord(tok[1]) - 48) % 256

RECURSIVE Decimal(_, _)
Decimal(t, n) == IF t = << >> THEN n ELSE Decimal(Tail(t), n * 10 + (Ord(Head(t)) - 48))

\* One coordinate string: a hemisphere letter and digits (the host library's
\* CPosition::LoadFromStrings decides this; degrees stand for the whole format).
CoordOK(tok, hemi) ==
    /\ Len(tok) >= 2
    /\ tok[1] \in hemi
    /\ \A i \in 2..Len(tok) : IsDigit(tok[i])

CoordVal(tok) ==
    IF tok[1] \in {"S", "W"} THEN 0 - Decimal(Tail(tok), 0) ELSE Decimal(Tail(tok), 0)

\* EuroScope::CPosition::LoadFromStrings(lon, lat): the bool returned and the position.
LoadFromStrings(lon, lat) ==
    IF CoordOK(lat, {"N", "S"}) /\ CoordOK(lon, {"E", "W"})
    THEN [ok |-> TRUE, pos |-> [lat |-> CoordVal(lat), lon |-> CoordVal(lon)]]
    ELSE [ok |-> FALSE]

\* A default-constructed CPosition.
NoPosition == [lat |-> 0, lon |-> 0]

Abs(n) == IF n < 0 THEN 0 - n ELSE n

\* CPosition::DistanceTo, in whole degrees along the grid.
DistanceTo(p, q) == Abs(p.lat - q.lat) + Abs(p.lon - q.lon)

(***************************************************************************)
(* Plugin::load, line by line                                              *)
(***************************************************************************)

\* An empty std::unordered_map / std::unordered_set.
EmptyMap == << >>

\* m[k] = v
Put(m, k, v) == [x \in DOMAIN m \cup {k} |-> IF x = k THEN v ELSE m[x]]

\* Plugin::load without hotspot_by_name.clear().
LoadStart_KeepIndex(pre) ==
    [hotspot |-> << >>, hotspot_by_name |-> pre.hotspot_by_name, closed |-> << >>,
     stands |-> EmptyMap, named_hotspot |-> EmptyMap,
     active |-> TRUE, colour |-> [hi |-> 0, lo |-> 0],
     current_stands |-> [set |-> FALSE], warned |-> 0, exit |-> "run"]

\* Plugin::load without hotspot.clear().
LoadStart_KeepHotspot(pre) ==
    [hotspot |-> pre.hotspot, hotspot_by_name |-> EmptyMap, closed |-> << >>,
     stands |-> EmptyMap, named_hotspot |-> EmptyMap,
     active |-> TRUE, colour |-> [hi |-> 0, lo |-> 0],
     current_stands |-> [set |-> FALSE], warned |-> 0, exit |-> "run"]

\* Plugin::load up to the loop: the four members of pre (the plugin before the
\* call) cleared, the locals as declared.  current_stands is declared without a
\* value: unset until an A record sets it.
LoadStart(pre) ==
    [hotspot |-> << >>, hotspot_by_name |-> EmptyMap, closed |-> << >>,
     stands |-> EmptyMap, named_hotspot |-> EmptyMap,
     active |-> TRUE, colour |-> [hi |-> 0, lo |-> 0],
     current_stands |-> [set |-> FALSE], warned |-> 0, exit |-> "run"]

\* fail: warn("skipping invalid line in configuration file")
Fail(ps) == [ps EXCEPT !.warned = @ + 1]

\* A statement whose behaviour is undefined: the process dies on the spot, or the
\* access lands outside the plugin's containers and the loop goes on.
Undefined(ps, ub) == IF ub = "segv" THEN [ps EXCEPT !.exit = "segv"] ELSE ps

\* case 'A' taking every aerodrome for an active one.
RecordA_AlwaysActive(ps, parts, actives) ==
    IF Len(parts) # 2 THEN Fail(ps)
    ELSE [ps EXCEPT !.active = TRUE,
                    !.current_stands = [set |-> TRUE, key |-> parts[2]],
                    !.stands = IF parts[2] \in DOMAIN ps.stands THEN @
                               ELSE Put(@, parts[2], EmptyMap)]

\* case 'A'
RecordA(ps, parts, actives) ==
    IF Len(parts) # 2 THEN Fail(ps)
    ELSE [ps EXCEPT !.active = (parts[2] \in actives),
                    !.current_stands = [set |-> TRUE, key |-> parts[2]],
                    !.stands = IF parts[2] \in DOMAIN ps.stands THEN @
                               ELSE Put(@, parts[2], EmptyMap)]

\* The for loop of case 'C' keeping the vertices read before a pair that fails.
RECURSIVE Polygon_Partial(_, _, _)
Polygon_Partial(parts, i, poly) ==
    IF i > Len(parts) THEN [ok |-> TRUE, poly |-> poly]
    ELSE LET r == LoadFromStrings(parts[i + 1], parts[i])
         IN  IF r.ok THEN Polygon_Partial(parts, i + 2, Append(poly, r.pos))
             ELSE [ok |-> TRUE, poly |-> poly]

\* The for loop of case 'C': the vertices, or not ok at the first pair that fails.
RECURSIVE Polygon(_, _, _)
Polygon(parts, i, poly) ==
    IF i > Len(parts) THEN [ok |-> TRUE, poly |-> poly]
    ELSE LET r == LoadFromStrings(parts[i + 1], parts[i])
         IN  IF r.ok THEN Polygon(parts, i + 2, Append(poly, r.pos)) ELSE [ok |-> FALSE]

\* case 'C' without the test of the token count: a last token without a partner
\* is left out.
RecordC_AnyCount(ps, parts) ==
    LET whole == IF Len(parts) % 2 = 1 THEN parts ELSE SubSeq(parts, 1, Len(parts) - 1)
        r == Polygon(whole, 2, << >>)
    IN  IF ~r.ok THEN Fail(ps)
        ELSE [ps EXCEPT !.closed = Append(@, r.poly)]

\* case 'C'
RecordC(ps, parts) ==
    IF Len(parts) % 2 # 1 THEN Fail(ps)
    ELSE LET r == Polygon(parts, 2, << >>)
         IN  IF ~r.ok THEN Fail(ps)
             ELSE [ps EXCEPT !.closed = Append(@, r.poly)]

\* case 'F' making the colour opaque: the top byte set to ff.
RecordF_Opaque(ps, parts) ==
    IF Len(parts) # 2 THEN Fail(ps)
    ELSE LET r == Stoll16(parts[2])
         IN  IF r.thrown # "none" THEN [ps EXCEPT !.exit = r.thrown]
             ELSE [ps EXCEPT !.colour = [hi |-> 65280 + (r.value.hi % 256),
                                         lo |-> r.value.lo]]

\* case 'F' keeping a colour once one is set.
RecordF_FirstWins(ps, parts) ==
    IF Len(parts) # 2 THEN Fail(ps)
    ELSE LET r == Stoll16(parts[2])
         IN  IF r.thrown # "none" THEN [ps EXCEPT !.exit = r.thrown]
             ELSE IF ps.colour # [hi |-> 0, lo |-> 0] THEN ps
             ELSE [ps EXCEPT !.colour = r.value]

\* case 'F'
RecordF(ps, parts) ==
    IF Len(parts) # 2 THEN Fail(ps)
    ELSE LET r == Stoll16(parts[2])
         IN  IF r.thrown # "none" THEN [ps EXCEPT !.exit = r.thrown]
             ELSE [ps EXCEPT !.colour = r.value]

\* case 'H'
RecordH(ps, parts) ==
    IF Len(parts) # 3 THEN Fail(ps)
    ELSE [ps EXCEPT !.named_hotspot =
              Put(@, parts[3],
                  [position |-> NoPosition, value |-> parts[2], colour |-> ps.colour])]

\* case 'I'
RecordI(ps, parts) ==
    IF Len(parts) # 4 THEN Fail(ps)
    ELSE LET r == LoadFromStrings(parts[4], parts[3])
         IN  IF ~r.ok THEN Fail(ps)
             ELSE [ps EXCEPT !.hotspot =
                       Append(@, [position |-> r.pos, value |-> parts[2],
                                  colour |-> ps.colour])]

\* case 'P' reaching the stand with operator[] instead of at().
RecordP_Creates(ps, parts, ub) ==
    IF Len(parts) < 3 \/ Len(parts) > 4 THEN Fail(ps)
    ELSE IF ~ps.active THEN ps
    ELSE IF ~ps.current_stands.set THEN Undefined(ps, ub)
    ELSE LET ad == ps.current_stands.key
             old == IF parts[2] \in DOMAIN ps.stands[ad] THEN ps.stands[ad][parts[2]]
                    ELSE [letter |-> "?", prop_letter |-> "?", colour |-> 0,
                          prop_colour |-> 0, details |-> << >>]
         IN  [ps EXCEPT !.stands[ad] =
                 Put(@, parts[2],
                     [old EXCEPT !.prop_letter = parts[3][1],
                                 !.prop_colour = IF Len(parts) < 4 THEN 0
                                                 ELSE ColourField(parts[4])])]

\* case 'P'
RecordP(ps, parts, ub) ==
    IF Len(parts) < 3 \/ Len(parts) > 4 THEN Fail(ps)
    ELSE IF ~ps.active THEN ps
    ELSE IF ~ps.current_stands.set THEN Undefined(ps, ub)
    ELSE LET ad == ps.current_stands.key
         IN  IF parts[2] \notin DOMAIN ps.stands[ad]
             THEN [ps EXCEPT !.exit = "out_of_range"]
             ELSE [ps EXCEPT !.stands[ad][parts[2]].prop_letter = parts[3][1],
                             !.stands[ad][parts[2]].prop_colour =
                                 IF Len(parts) < 4 THEN 0 ELSE ColourField(parts[4])]

\* The details of an S record with more than four parts: the rest of the line from
\* the offset four delimiter runs in.  With no such offset the pointer handed to
\* std::string lies outside the line.
Details(line) ==
    LET offset == DetailsOffset(line, 0, 4)
    IN  IF offset = NPOS THEN [inside |-> FALSE]
        ELSE [inside |-> TRUE, text |-> SubSeq(line, offset + 1, Len(line))]

\* case 'S'
RecordS(ps, parts, line, ub) ==
    IF Len(parts) < 3 THEN Fail(ps)
    ELSE IF ~ps.active THEN ps
    ELSE LET details == IF Len(parts) > 4 THEN Details(line)
                        ELSE [inside |-> TRUE, text |-> << >>]
             stand == [letter |-> parts[3][1], prop_letter |-> parts[3][1],
                       colour |-> IF Len(parts) < 4 THEN 0 ELSE ColourField(parts[4]),
                       prop_colour |-> IF Len(parts) < 4 THEN 0 ELSE ColourField(parts[4]),
                       details |-> details.text]
             ad == ps.current_stands.key
         IN  IF ~details.inside \/ ~ps.current_stands.set THEN Undefined(ps, ub)
             ELSE IF parts[2] \in DOMAIN ps.stands[ad] THEN ps
             ELSE [ps EXCEPT !.stands[ad] = Put(@, parts[2], stand)]

\* The loop body without the test of active in front of the switch.
ParseLine_NoGate(ps, line, actives, ub) ==
    IF line = << >> \/ line[1] = ";" THEN ps
    ELSE LET parts == Parts(line)
         IN  IF parts = << >> \/ Len(parts[1]) # 1 THEN Fail(ps)
             ELSE CASE line[1] = "A" -> RecordA(ps, parts, actives)
                    [] line[1] = "C" -> RecordC(ps, parts)
                    [] line[1] = "F" -> RecordF(ps, parts)
                    [] line[1] = "H" -> RecordH(ps, parts)
                    [] line[1] = "I" -> RecordI(ps, parts)
                    [] line[1] = "P" -> RecordP(ps, parts, ub)
                    [] line[1] = "S" -> RecordS(ps, parts, line, ub)
                    [] OTHER -> Fail(ps)

\* One round of while (std::getline(is, line)).
ParseLine(ps, line, actives, ub) ==
    IF line = << >> \/ line[1] = ";" THEN ps
    ELSE LET parts == Parts(line)
         IN  IF parts = << >> \/ Len(parts[1]) # 1 THEN Fail(ps)
             ELSE IF line[1] # "A" /\ ~ps.active THEN ps
             ELSE CASE line[1] = "A" -> RecordA(ps, parts, actives)
                    [] line[1] = "C" -> RecordC(ps, parts)
                    [] line[1] = "F" -> RecordF(ps, parts)
                    [] line[1] = "H" -> RecordH(ps, parts)
                    [] line[1] = "I" -> RecordI(ps, parts)
                    [] line[1] = "P" -> RecordP(ps, parts, ub)
                    [] line[1] = "S" -> RecordS(ps, parts, line, ub)
                    [] OTHER -> Fail(ps)

\* The while loop: it ends with the file, or where an exception or a crash leaves it.
RECURSIVE ParseLines(_, _, _, _, _)
ParseLines(ps, lines, n, actives, ub) ==
    IF n >= Len(lines) \/ ps.exit # "run" THEN [ps |-> ps, n |-> n]
    ELSE ParseLines(ParseLine(ps, lines[n + 1], actives, ub), lines, n + 1, actives, ub)

(***************************************************************************)
(* The sector database and the controller, as the host reports them        *)
(***************************************************************************)

EGLL == << "E", "G", "L", "L" >>
LSZH == << "L", "S", "Z", "H" >>
TWY  == << "T", "W", "Y" >>
APRON == << "A", "P", "R", "O", "N" >>

\* SECTOR_ELEMENT_AIRPORT elements.
SectorAirports == {EGLL, LSZH}

\* SECTOR_ELEMENT_FREE_TEXT elements in the order the host enumerates them:
\* GetName, and GetPosition (its bool and the position).
FreeText ==
    << [name |-> TWY,   has_position |-> TRUE,  pos |-> [lat |-> 2, lon |-> 1]],
       [name |-> APRON, has_position |-> TRUE,  pos |-> [lat |-> 3, lon |-> 3]],
       [name |-> TWY,   has_position |-> FALSE, pos |-> NoPosition],
       [name |-> TWY,   has_position |-> TRUE,  pos |-> [lat |-> 9, lon |-> 8]] >>

\* ControllerMyself().GetPosition()
ControllerPosition == [lat |-> 1, lon |-> 1]

(***************************************************************************)
(* Plugin::load after the loop                                             *)
(***************************************************************************)

\* The loop over the free-text elements leaving at the first element it resolves.
RECURSIVE Resolve_FirstOnly(_, _, _)
Resolve_FirstOnly(hs, named, els) ==
    IF els = << >> THEN hs
    ELSE LET el == Head(els)
         IN  IF el.name \in DOMAIN named /\ el.has_position
             THEN Append(hs, [named[el.name] EXCEPT !.position = el.pos])
             ELSE Resolve_FirstOnly(hs, named, Tail(els))

\* The loop over the free-text elements: a named hotspot takes the position of
\* each element that carries its name.
RECURSIVE Resolve(_, _, _)
Resolve(hs, named, els) ==
    IF els = << >> THEN hs
    ELSE LET el == Head(els)
         IN  IF el.name \in DOMAIN named /\ el.has_position
             THEN Resolve(Append(hs, [named[el.name] EXCEPT !.position = el.pos]),
                          named, Tail(els))
             ELSE Resolve(hs, named, Tail(els))

\* The last loop without the test of the distance.
RECURSIVE BuildIndex_NoRange(_, _, _, _, _)
BuildIndex_NoRange(hs, i, centre, range, index) ==
    IF i > Len(hs) THEN index
    ELSE BuildIndex_NoRange(hs, i + 1, centre, range, Put(index, hs[i].value, i))

\* The last loop: hotspot_by_name[hotspot.value] = &hotspot for those in range.
RECURSIVE BuildIndex(_, _, _, _, _)
BuildIndex(hs, i, centre, range, index) ==
    IF i > Len(hs) THEN index
    ELSE BuildIndex(hs, i + 1, centre, range,
                    IF DistanceTo(hs[i].position, centre) < range
                    THEN Put(index, hs[i].value, i) ELSE index)

\* Plugin::load as a whole.  pre: the four members before the call; lines, present:
\* the file; path_ok: whether get_dll_path returned a path; actives: the active
\* aerodromes; range: ControllerMyself().GetRange(); ub: what undefined behaviour
\* does in this run.  The result: the four members, where the function left (exit),
\* the lines it took from the file and the warnings it gave.
Load(pre, lines, present, path_ok, actives, range, ub) ==
    LET start == LoadStart(pre)
        members(ps) == [hotspot |-> ps.hotspot, hotspot_by_name |-> ps.hotspot_by_name,
                        closed |-> ps.closed, stands |-> ps.stands]
    IN  IF ~path_ok
        THEN [m |-> members(start), exit |-> "nopath", n |-> 0, warned |-> 1]
        ELSE LET r == ParseLines(start, IF present THEN lines ELSE << >>, 0, actives, ub)
                 hs == Resolve(r.ps.hotspot, r.ps.named_hotspot, FreeText)
             IN  IF r.ps.exit # "run"
                 THEN [m |-> members(r.ps), exit |-> r.ps.exit, n |-> r.n,
                       warned |-> r.ps.warned]
                 ELSE [m |-> [members(r.ps) EXCEPT
                                !.hotspot = hs,
                                !.hotspot_by_name =
                                    BuildIndex(hs, 1, ControllerPosition, range,
                                               r.ps.hotspot_by_name)],
                       exit |-> "done", n |-> r.n, warned |-> r.ps.warned]

(***************************************************************************)
(* Configuration lines                                                     *)
(***************************************************************************)

\* The fields of a line joined by its separators: seps[i] stands between
\* fields[i] and fields[i + 1].
RECURSIVE Join(_, _)
Join(fields, seps) ==
    IF Len(fields) = 1 THEN fields[1]
    ELSE fields[1] \o seps[1] \o Join(Tail(fields), Tail(seps))

Blank == << " " >>
Blanks(n) == [i \in 1..n |-> Blank]

\* A line whose fields are separated by single blanks.
Line(fields) == Join(fields, Blanks(Len(fields) - 1))

Tok1(a) == << a >>
Tok2(a, b) == << a, b >>
Tok3(a, b, c) == << a, b, c >>

N1 == Tok2("N", "1")
E1 == Tok2("E", "1")
N2 == Tok2("N", "2")
E2 == Tok2("E", "2")
N9 == Tok2("N", "9")
E9 == Tok2("E", "9")
HS1 == Tok3("H", "S", "1")
HS2 == Tok3("H", "S", "2")
HS3 == Tok3("H", "S", "3")
A1 == Tok2("A", "1")
B2 == Tok2("B", "2")

LineA_EGLL == Line(<< Tok1("A"), EGLL >>)
LineA_LSZH == Line(<< Tok1("A"), LSZH >>)
LineA_Short == Tok1("A")
LineC == Line(<< Tok1("C"), N1, E1, N2, E2 >>)
LineC_BadGeo == Line(<< Tok1("C"), N1, E1, N2, Tok2("x", "x") >>)
LineC_One == Line(<< Tok1("C"), N9, E9 >>)
LineC_None == Tok1("C")
LineC_Odd == Line(<< Tok1("C"), N1, E1, N2 >>)
LineF == Line(<< Tok1("F"), << "f", "f", "0", "0", "f", "f" >> >>)
LineF_1 == Line(<< Tok1("F"), Tok1("1") >>)
LineF_NotHex == Line(<< Tok1("F"), Tok2("z", "z") >>)
LineH == Line(<< Tok1("H"), HS2, TWY >>)
LineH_None == Line(<< Tok1("H"), HS3, << "G", "A", "T", "E" >> >>)
LineI == Line(<< Tok1("I"), HS1, N1, E1 >>)
LineI_Far == Line(<< Tok1("I"), HS3, N9, E9 >>)
LineI_BadGeo == Line(<< Tok1("I"), HS1, N1, Tok3("b", "a", "d") >>)
LineX == Line(<< Tok1("X"), Tok1("1") >>)

\* S records, by their fields and separators.
FieldsS_Full == << Tok1("S"), A1, Tok1("G"), Tok1("2"), Tok2("o", "n"), Tok3("1", "2", "1") >>
SepsS_Full == << Blank, Blank, << "\t" >>, Blank, << " ", " " >> >>
FieldsS_Min == << Tok1("S"), A1, Tok1("H") >>
FieldsS_Col == << Tok1("S"), B2, Tok1("K"), Tok1("5") >>
FieldsS_FF == << Tok1("S"), B2, Tok1("M"), Tok1("1"), Tok1("x"), Tok1("y") >>
SepsS_FF == << << "\f" >>, Blank, Blank, Blank, Blank >>

LineS_Full == Join(FieldsS_Full, SepsS_Full)
LineS_Min == Line(FieldsS_Min)
LineS_Col == Line(FieldsS_Col)
LineS_FF == Join(FieldsS_FF, SepsS_FF)
LineP == Line(<< Tok1("P"), A1, Tok1("T") >>)
LineP_Col == Line(<< Tok1("P"), A1, Tok1("T"), Tok1("3") >>)
LineS_Nine == Line(<< Tok1("S"), A1, Tok1("G"), Tok1("9") >>)
LineP_Z == Line(<< Tok1("P"), A1, Tok1("T"), Tok1("z") >>)

\* The lines an edit may add to the file, by scenario.
PoolGood == { LineA_EGLL, LineA_LSZH, LineC, LineF, LineH, LineI, LineS_Full, LineP }
PoolErr == { LineA_EGLL, LineA_Short, LineC_BadGeo, LineF_NotHex, LineI_BadGeo, LineX,
             LineI, LineC, LineF }
PoolStands == { LineA_EGLL, LineA_LSZH, LineS_Full, LineS_Min, LineS_Col, LineS_FF,
                LineP, LineP_Col, LineC }
PoolPoly == { LineA_EGLL, LineA_LSZH, LineC, LineC_One, LineC_None, LineC_Odd,
              LineC_BadGeo }
PoolHot == { LineA_EGLL, LineA_LSZH, LineF, LineF_1, LineH, LineH_None, LineI }
PoolIndex == { LineI, LineI_Far, LineH, LineF_NotHex }
PoolColour == { LineA_EGLL, LineS_Full, LineS_Nine, LineP_Col, LineP_Z }

\* The longest configuration file.
MaxLines == 3

(***************************************************************************)
(* The pressure ledger and the tag handlers                                *)
(***************************************************************************)

\* The flight plans of the session, by callsign, and the origin of each.
SWR123 == "SWR123"
BAW1 == "BAW1"
Callsigns == {SWR123, BAW1}
Origin(cs) == IF cs = SWR123 THEN LSZH ELSE EGLL

\* No output, no argument.
NoOutput == [kind |-> "none"]
NoArg == [of |-> "none"]

TAG_ITEM_STAND == 101
TAG_FUNC_STAND == 201
TAG_ITEM_DEHIGHLIGHT == 102
TAG_FUNC_DEHIGHLIGHT == 202
TAG_ITEM_PRESSURE == 103
TAG_FUNC_PRESSURE_UPDATE == 203
TAG_FUNC_PRESSURE_RESET == 204

\* The character that ends a C string.
NUL == "NUL"

\* The character at place k of a C string s: behind the last one stands NUL.
CharAt(s, k) == IF k = Len(s) + 1 THEN NUL ELSE s[k]

\* std::strchr(metar, 'Q'): the place of the first Q, 0 for a null pointer.
StrChrQ(metar) ==
    IF \E i \in 1..Len(metar) : metar[i] = "Q"
    THEN CHOOSE i \in 1..Len(metar) : metar[i] = "Q" /\ \A k \in 1..(i - 1) : metar[k] # "Q"
    ELSE 0

\* std::string(std::strchr(metar, 'Q') + 3, 2) reading Q + 4 where the code reads
\* Q + 3.
MetarValue_OneOn(metar) ==
    LET q == StrChrQ(metar)
    IN  IF q # 0 /\ q + 5 <= Len(metar) + 1
        THEN [defined |-> TRUE, value |-> << CharAt(metar, q + 4), CharAt(metar, q + 5) >>]
        ELSE [defined |-> FALSE]

\* std::string(std::strchr(metar, 'Q') + 3, 2): two characters from the third
\* place behind the Q; not defined when there is no Q or the text ends before.
MetarValue(metar) ==
    LET q == StrChrQ(metar)
    IN  IF q # 0 /\ q + 4 <= Len(metar) + 1
        THEN [defined |-> TRUE, value |-> << CharAt(metar, q + 3), CharAt(metar, q + 4) >>]
        ELSE [defined |-> FALSE]

\* What a read outside the report's text may put into the string.
Garbage == { << "?", "?" >> }

\* m.erase(k)
Remove(m, k) == [x \in DOMAIN m \ {k} |-> m[x]]

\* case TAG_FUNC_PRESSURE_UPDATE writing a record whatever the aerodrome has.
PressureUpdate_Always(acp, adp, cs) ==
    Put(acp, cs, IF Origin(cs) \in DOMAIN adp THEN adp[Origin(cs)] ELSE << >>)

\* case TAG_FUNC_PRESSURE_UPDATE
PressureUpdate(acp, adp, cs) ==
    IF Origin(cs) \in DOMAIN adp THEN Put(acp, cs, adp[Origin(cs)]) ELSE acp

\* case TAG_FUNC_PRESSURE_RESET
PressureReset(acp, cs) == Remove(acp, cs)

\* strncpy_s(string, 12, src, 2): the characters of src up to a NUL, two at most.
RECURSIVE StrNCpy(_, _)
StrNCpy(src, n) ==
    IF n = 0 \/ src = << >> \/ Head(src) = NUL THEN << >>
    ELSE << Head(src) >> \o StrNCpy(Tail(src), n - 1)

\* A tag item: the string and the colour code written, "untouched" where the
\* handler returns before it writes one.
TagItem(string, colour) == [kind |-> "tag", string |-> string, colour |-> colour]

\* case TAG_ITEM_PRESSURE with ok true from the start.
TagItemPressure_OkFirst(acp, adp, cs) ==
    IF cs \notin DOMAIN acp THEN TagItem(<< >>, "TAG_COLOR_REDUNDANT")
    ELSE LET ok == IF Origin(cs) \in DOMAIN adp THEN acp[cs] = adp[Origin(cs)] ELSE TRUE
         IN  TagItem(StrNCpy(acp[cs], 2),
                     IF ok THEN "TAG_COLOR_REDUNDANT" ELSE "TAG_COLOR_INFORMATION")

\* case TAG_ITEM_PRESSURE
TagItemPressure(acp, adp, cs) ==
    IF cs \notin DOMAIN acp THEN TagItem(<< >>, "untouched")
    ELSE LET ok == IF Origin(cs) \in DOMAIN adp THEN acp[cs] = adp[Origin(cs)] ELSE FALSE
         IN  TagItem(StrNCpy(acp[cs], 2),
                     IF ok THEN "TAG_COLOR_REDUNDANT" ELSE "TAG_COLOR_INFORMATION")

COLOUR_STAND ==
    << << 102, 102, 102 >>, << 205, 49, 49 >>, << 13, 188, 121 >>, << 229, 229, 16 >>,
       << 36, 114, 200 >>, << 188, 63, 188 >>, << 17, 168, 205 >>, << 229, 229, 229 >> >>

\* COLOUR_STAND[i]; behind the table the read finds whatever lies there.
Palette(i) == IF i < Len(COLOUR_STAND) THEN COLOUR_STAND[i + 1] ELSE << "?" >>

\* case TAG_ITEM_STAND.  near: GetDistanceFromOrigin() <= 10.0; ann:
\* GetFlightStripAnnotation(3); engine: GetEngineType().
TagItemStand(st, cs, near, ann, engine) ==
    IF ~near \/ Origin(cs) \notin DOMAIN st THEN TagItem(<< >>, "untouched")
    ELSE IF ann \notin DOMAIN st[Origin(cs)] THEN TagItem(<< >>, "untouched")
    ELSE LET stand == st[Origin(cs)][ann]
             prop == engine \in {"P", "T"}
         IN  [kind |-> "tag",
              string |-> << IF prop THEN stand.prop_letter ELSE stand.letter >>,
              colour |-> "TAG_COLOR_RGB_DEFINED",
              rgb |-> Palette(IF prop THEN stand.prop_colour ELSE stand.colour)]

\* case TAG_ITEM_DEHIGHLIGHT
TagItemDehighlight(dh, cs) ==
    TagItem(<< IF cs \in dh THEN "CHAR_BOX_FILLED" ELSE "CHAR_BOX_EMPTY" >>,
            "TAG_COLOR_DEFAULT")

\* Plugin::OnGetTagItem for a valid flight plan.
GetTagItem(code, cs, near, ann, engine) ==
    CASE code = TAG_ITEM_STAND -> TagItemStand(stands, cs, near, ann, engine)
      [] code = TAG_ITEM_DEHIGHLIGHT -> TagItemDehighlight(dehighlight, cs)
      [] code = TAG_ITEM_PRESSURE -> TagItemPressure(ac_pressure, ad_pressure, cs)
      [] OTHER -> NoOutput

\* case TAG_FUNC_STAND: the message shown, if any.
StandMessage(st, cs, ann) ==
    IF Origin(cs) \notin DOMAIN st THEN NoOutput
    ELSE IF ann \notin DOMAIN st[Origin(cs)] THEN NoOutput
    ELSE IF st[Origin(cs)][ann].details = << >> THEN NoOutput
    ELSE [kind |-> "message", title |-> ann, text |-> st[Origin(cs)][ann].details]

\* case TAG_FUNC_DEHIGHLIGHT
ToggleDehighlight(dh, cs, gs) ==
    IF cs \in dh THEN dh \ {cs}
    ELSE IF gs = "TAXI" THEN dh \cup {cs}
    ELSE dh

\* Plugin::OnFunctionCall for a valid selected flight plan: the two members it
\* writes and what it shows.
FunctionCall(code, cs, ann) ==
    [ac |-> CASE code = TAG_FUNC_PRESSURE_UPDATE -> PressureUpdate(ac_pressure, ad_pressure, cs)
              [] code = TAG_FUNC_PRESSURE_RESET -> PressureReset(ac_pressure, cs)
              [] OTHER -> ac_pressure,
     dh |-> IF code = TAG_FUNC_DEHIGHLIGHT THEN ToggleDehighlight(dehighlight, cs, ground[cs])
            ELSE dehighlight,
     out |-> IF code = TAG_FUNC_STAND THEN StandMessage(stands, cs, ann) ELSE NoOutput]

\* Weather reports: complete ones, one that ends one character early, one that
\* ends two characters early, one without a Q.
Metar_Q1013 == << "Q", "1", "0", "1", "3" >>
Metar_Q1015 == << "Q", "1", "0", "1", "5" >>
Metar_Q101 == << "Q", "1", "0", "1" >>
Metar_Q10 == << "Q", "1", "0" >>
Metar_NoQ == << "A", "2", "9", "9", "2" >>
Metars == { Metar_Q1013, Metar_Q1015, Metar_Q101, Metar_Q10, Metar_NoQ }

\* Flight strip annotations and engine types the host reports.
Annotations == { A1, B2 }
EngineTypes == { "J", "P" }

\* FlightPlanSelectASEL() with nothing selected.
NoPlan == "none"

(***************************************************************************)
(* The state machine                                                       *)
(***************************************************************************)

\* After construction (Plugin::Plugin -> init -> load) with an empty file.
Init ==
    /\ hotspot = << >>
    /\ hotspot_by_name = EmptyMap
    /\ closed = << >>
    /\ stands = EmptyMap
    /\ file = << >>
    /\ file_opened = TRUE
    /\ sector_active = {EGLL}
    /\ ctr_range = 5
    /\ running = TRUE
    /\ last_event = "load"
    /\ load_exit = "done"
    /\ lines_read = 0
    /\ warned = 0
    /\ range_at_load = 5
    /\ ad_pressure = EmptyMap
    /\ ac_pressure = EmptyMap
    /\ dehighlight = {}
    /\ ground = [cs \in Callsigns |-> "PUSH"]
    /\ out = NoOutput
    /\ event_arg = NoArg

members == [hotspot |-> hotspot, hotspot_by_name |-> hotspot_by_name,
            closed |-> closed, stands |-> stands]

\* What undefined behaviour may do in one run of Plugin::load.
Outcomes == {"segv", "stray"}

\* The results Plugin::load can have: one, unless it runs into undefined behaviour.
Loads(actives, present, path_ok) ==
    LET r == Load(members, file, present, path_ok, actives, ctr_range, "segv")
    IN  IF r.exit # "segv" THEN {r}
        ELSE {Load(members, file, present, path_ok, actives, ctr_range, ub) : ub \in Outcomes}

\* A call of Plugin::load with the sector reporting actives.  An exception that
\* leaves the handler reaches the host, which goes on or goes down with it.
Reload(actives) ==
    \E path_ok \in BOOLEAN, present \in BOOLEAN :
      \E r \in Loads(actives, present, path_ok) :
        /\ hotspot' = r.m.hotspot
        /\ hotspot_by_name' = r.m.hotspot_by_name
        /\ closed' = r.m.closed
        /\ stands' = r.m.stands
        /\ load_exit' = r.exit
        /\ lines_read' = r.n
        /\ warned' = r.warned
        /\ range_at_load' = IF r.exit = "done" THEN ctr_range ELSE range_at_load
        /\ file_opened' = (path_ok /\ present)
        /\ running' \in CASE r.exit = "segv" -> {FALSE}
                          [] r.exit \in {"invalid_argument", "out_of_range"} -> BOOLEAN
                          [] OTHER -> {TRUE}
        /\ last_event' = "load"
        /\ UNCHANGED ledger

\* Plugin::OnCompileCommand(".reloadvsmrplus")
OnCompileCommand ==
    /\ running
    /\ Reload(sector_active)
    /\ UNCHANGED << file, sector_active, ctr_range >>

\* The airports whose activity changes in a session.
ToggledAirports == {EGLL}

\* Plugin::OnAirportRunwayActivityChanged: an airport has become active or inactive.
OnAirportRunwayActivityChanged ==
    /\ running
    /\ \E ad \in ToggledAirports :
           /\ sector_active' = IF ad \in sector_active THEN sector_active \ {ad}
                               ELSE sector_active \cup {ad}
           /\ Reload(sector_active')
    /\ UNCHANGED << file, ctr_range >>

\* The user adds a line to the configuration file.
EditFile(pool, max) ==
    /\ running
    /\ Len(file) < max
    /\ \E l \in pool : file' = Append(file, l)
    /\ last_event' = "edit"
    /\ UNCHANGED << loaded, ledger, sector_active, ctr_range, running >>

\* Screen::OnRefresh: the screen draws from hotspot, closed and hotspot_by_name as
\* they are; it changes none of them.
OnRefresh ==
    /\ running
    /\ last_event' = "render"
    /\ UNCHANGED << loaded, ledger, file, sector_active, ctr_range, running >>

\* Plugin::OnNewMetarReceived for an aerodrome of ads with a text of metars.  Where the text has no Q, or ends before the two
\* characters, the read is outside the text: the process dies or takes garbage.
OnNewMetarReceived(ads, metars) ==
    /\ running
    /\ \E ad \in ads, metar \in metars :
         /\ IF MetarValue(metar).defined
            THEN /\ ad_pressure' = Put(ad_pressure, ad, MetarValue(metar).value)
                 /\ running' = TRUE
            ELSE \E ub \in Outcomes :
                   IF ub = "segv"
                   THEN running' = FALSE /\ ad_pressure' = ad_pressure
                   ELSE running' = TRUE /\ \E g \in Garbage : ad_pressure' = Put(ad_pressure, ad, g)
         /\ event_arg' = [of |-> "metar", ad |-> ad, metar |-> metar]
    /\ last_event' = "metar"
    /\ out' = NoOutput
    /\ UNCHANGED << loaded, file, sector_active, ctr_range, ac_pressure, dehighlight, ground >>

\* Plugin::OnFunctionCall with one of codes.
OnFunctionCall(codes) ==
    /\ running
    /\ \E code \in codes, asel \in Callsigns \cup {NoPlan}, ann \in Annotations :
         /\ IF asel = NoPlan \/ ground[asel] = "gone"
            THEN UNCHANGED << ac_pressure, dehighlight >> /\ out' = NoOutput
            ELSE /\ ac_pressure' = FunctionCall(code, asel, ann).ac
                 /\ dehighlight' = FunctionCall(code, asel, ann).dh
                 /\ out' = FunctionCall(code, asel, ann).out
         /\ event_arg' = [of |-> "function", code |-> code, cs |-> asel]
    /\ last_event' = "function"
    /\ UNCHANGED << loaded, file, sector_active, ctr_range, running, ad_pressure, ground >>

\* Plugin::OnGetTagItem with one of codes.
OnGetTagItem(codes) ==
    /\ running
    /\ \E code \in codes, cs \in Callsigns, near \in BOOLEAN, ann \in Annotations,
          engine \in EngineTypes :
         /\ out' = IF ground[cs] = "gone" THEN NoOutput
                   ELSE GetTagItem(code, cs, near, ann, engine)
         /\ event_arg' = [of |-> "tag", code |-> code, cs |-> cs]
    /\ last_event' = "tag"
    /\ UNCHANGED << loaded, file, sector_active, ctr_range, running, ad_pressure,
                    ac_pressure, dehighlight, ground >>

\* The controller changes the range of the display; the plug-in is not called.
Ranges == {5, 20}
RangeChange ==
    /\ running
    /\ \E r \in Ranges \ {ctr_range} : ctr_range' = r
    /\ last_event' = "range"
    /\ UNCHANGED << loaded, ledger, file, sector_active, running >>

OBJECT_TYPE_HOTSPOT == 1
OBJECT_TYPE_DEHIGHLIGHT == 2

\* Screen::OnClickScreenObject on a screen object of object_type: a hotspot (id
\* its label) or a dehighlight object (id a callsign of ids).
OnClickScreenObject(ids) ==
    /\ running
    /\ \E object_type \in {OBJECT_TYPE_HOTSPOT, OBJECT_TYPE_DEHIGHLIGHT},
          button \in {"BUTTON_LEFT", "BUTTON_RIGHT"} :
         /\ IF object_type = OBJECT_TYPE_HOTSPOT
            THEN \E i \in 1..Len(hotspot), asel \in Callsigns \cup {NoPlan} :
                   /\ out' = IF button = "BUTTON_RIGHT" /\ asel # NoPlan /\ ground[asel] # "gone"
                             THEN [kind |-> "scratchpad", cs |-> asel, text |-> hotspot[i].value]
                             ELSE NoOutput
                   /\ dehighlight' = dehighlight
            ELSE \E id \in ids :
                   /\ dehighlight' = IF button = "BUTTON_RIGHT" THEN dehighlight \cup {id}
                                     ELSE dehighlight
                   /\ out' = NoOutput
         /\ event_arg' = [of |-> "click", object_type |-> object_type, button |-> button]
    /\ last_event' = "click"
    /\ UNCHANGED << loaded, file, sector_active, ctr_range, running, ad_pressure,
                    ac_pressure, ground >>

\* The predicate of OnTimer erasing only callsigns without a valid flight plan.
Expired_InvalidOnly(gs) == gs = "gone"

\* The predicate of OnTimer for a callsign whose flight plan has ground state gs
\* ("gone": FlightPlanSelect finds no valid plan).
Expired(gs) == gs = "gone" \/ gs # "TAXI"

\* Plugin::OnTimer: erase_if over dehighlight.
OnTimer ==
    /\ running
    /\ dehighlight' = {cs \in dehighlight : ~Expired(ground[cs])}
    /\ last_event' = "timer"
    /\ out' = NoOutput
    /\ event_arg' = NoArg
    /\ UNCHANGED << loaded, file, sector_active, ctr_range, running, ad_pressure,
                    ac_pressure, ground >>

\* The ground states a flight plan goes through, and "gone" for a plan that is no
\* longer valid.
GroundStates == {"PUSH", "TAXI", "STUP", "gone"}

\* The host changes the ground state of a flight plan; the plug-in is not called.
GroundStateChange ==
    /\ running
    /\ \E cs \in Callsigns, gs \in GroundStates :
         gs # ground[cs] /\ ground' = [ground EXCEPT ![cs] = gs]
    /\ last_event' = "ground"
    /\ UNCHANGED << loaded, file, sector_active, ctr_range, running, ad_pressure,
                    ac_pressure, dehighlight, out, event_arg >>

StandItems == OnGetTagItem({TAG_ITEM_STAND})
DehighlightFunctions == OnFunctionCall({TAG_FUNC_DEHIGHLIGHT})
DehighlightItems == OnGetTagItem({TAG_ITEM_DEHIGHLIGHT})
DehighlightClicks == OnClickScreenObject(Callsigns)
PressureFunctions == OnFunctionCall({TAG_FUNC_PRESSURE_UPDATE, TAG_FUNC_PRESSURE_RESET})
PressureItems == OnGetTagItem({TAG_ITEM_PRESSURE})
PressureReports == OnNewMetarReceived(SectorAirports, Metars)
IndexReports == OnNewMetarReceived({EGLL}, {Metar_Q1013, Metar_NoQ})
IndexClicks == OnClickScreenObject({SWR123})

Host == OnCompileCommand \/ OnAirportRunwayActivityChanged

EditGood == EditFile(PoolGood, MaxLines)
EditErr == EditFile(PoolErr, MaxLines)
EditStands == EditFile(PoolStands, MaxLines)
EditHot == EditFile(PoolHot, MaxLines + 1)
EditPoly == EditFile(PoolPoly, MaxLines)
EditIndex == EditFile(PoolIndex, MaxLines - 1)
EditColour == EditFile(PoolColour, MaxLines)

Next == Host \/ EditGood
NextErr == Host \/ OnRefresh \/ EditErr
NextStands == Host \/ EditStands
NextHot == OnCompileCommand \/ EditHot
NextPoly == Host \/ EditPoly
NextPressure == PressureReports \/ PressureFunctions \/ PressureItems
NextDehighlight == GroundStateChange \/ OnTimer \/ DehighlightFunctions \/ DehighlightItems
                   \/ DehighlightClicks
NextColour == OnCompileCommand \/ StandItems \/ EditColour
NextIndex == OnCompileCommand \/ RangeChange \/ OnRefresh \/ IndexClicks \/ OnTimer
             \/ IndexReports \/ EditIndex

Spec == Init /\ [][Next]_vars
SpecErr == Init /\ [][NextErr]_vars
SpecStands == Init /\ [][NextStands]_vars
SpecHot == Init /\ [][NextHot]_vars
SpecPoly == Init /\ [][NextPoly]_vars
SpecPressure == Init /\ [][NextPressure]_vars
SpecIndex == Init /\ [][NextIndex]_vars
SpecDehighlight == Init /\ [][NextDehighlight]_vars
SpecColour == Init /\ [][NextColour]_vars

(***************************************************************************)
(* Properties                                                              *)
(***************************************************************************)

\* The lines of the file that are the line l.
LinesAt(l) == {j \in 1..Len(file) : file[j] = l}

\* The plugin with nothing loaded.
NoMembers == [hotspot |-> << >>, hotspot_by_name |-> EmptyMap,
              closed |-> << >>, stands |-> EmptyMap]

\* The last event was a reload that read the file as it is now.
JustLoaded == last_event = "load" /\ file_opened

\* Every hotspot in range of the controller has its label in the index.
IndexRebuilt ==
    \A i \in 1..Len(hotspot) :
        DistanceTo(hotspot[i].position, ControllerPosition) < ctr_range
            => hotspot[i].value \in DOMAIN hotspot_by_name

\* The lines of PoolErr that break the format.
Malformed == { LineA_Short, LineC_BadGeo, LineF_NotHex, LineI_BadGeo, LineX }

\* C1: a malformed line (wrong token count, colour that is no hexadecimal number,
\* bad coordinate, unknown record letter) is skipped with a warning and never ends
\* the parse: the reload reads every line, runs to completion, and the well-formed
\* lines are all applied.  (With EGLL active no section of these files is inactive.)
C1_MalformedLineNeverAborts ==
    JustLoaded =>
        /\ load_exit = "done"
        /\ lines_read = Len(file)
        /\ EGLL \in sector_active =>
              /\ Len(hotspot) = Cardinality(LinesAt(LineI))
              /\ Len(closed) = Cardinality(LinesAt(LineC))
              /\ warned = Cardinality({j \in 1..Len(file) : file[j] \in Malformed})

\* C2: a P record naming a stand that no S record declared ends no reload: every
\* reload that opened the file (and did not run into an unset current_stands)
\* reads all its lines and runs to completion.
C2_UndeclaredStandIsSkipped ==
    (JustLoaded /\ load_exit # "segv") =>
        (load_exit = "done" /\ lines_read = Len(file))

\* C3: a reload that cannot resolve its path or cannot open the file gives a
\* warning and leaves the four collections empty.
C3_FailedReloadWarnsAndEmpties ==
    (last_event = "load" /\ ~file_opened) => (warned >= 1 /\ members = NoMembers)

\* C4: after a reload that ran to completion the four collections are those a
\* reload from a plugin with nothing loaded gives (the state left by earlier
\* reloads does not show), and one more reload of the same file under the same
\* sector data leaves them as they are.
C4_ReloadIdempotent ==
    (JustLoaded /\ load_exit = "done") =>
        /\ members = Load(NoMembers, file, TRUE, TRUE, sector_active, ctr_range, "stray").m
        /\ members = Load(members, file, TRUE, TRUE, sector_active, ctr_range, "stray").m

\* A completed reload of a full file that left hotspots and a polygon.
C4_Witness ==
    /\ JustLoaded /\ load_exit = "done" /\ lines_read = MaxLines
    /\ Len(hotspot) > 0 /\ Len(closed) > 0

\* A reload stopped inside its loop and left what the lines before had stored.
PartLoaded == load_exit \notin {"done", "nopath"} /\ members # NoMembers

\* C5: a screen refresh never sees a reload that stopped part-way: no collections
\* holding only what a prefix of the file stored, and no hotspot list without
\* its index.
C5_RenderSeesWholeReload ==
    last_event = "render" => (~PartLoaded /\ IndexRebuilt)

(***************************************************************************)
(* Sections of the file, as the format describes them                      *)
(***************************************************************************)

Greatest(S) == CHOOSE i \in S : \A k \in S : k <= i

IsA(l) == l \in {LineA_EGLL, LineA_LSZH}
NamedBy(l) == IF l = LineA_EGLL THEN EGLL ELSE LSZH

\* The A record that opens the section line j stands in; 0 before the first one.
SectionHead(j) ==
    LET heads == {i \in 1..(j - 1) : IsA(file[i])}
    IN  IF heads = {} THEN 0 ELSE Greatest(heads)

\* Line j follows an A record naming an aerodrome that is not active.
InInactive(j) ==
    SectionHead(j) # 0 /\ NamedBy(file[SectionHead(j)]) \notin sector_active

\* Line j stands in a section of aerodrome ad.
InSectionOf(j, ad) == SectionHead(j) # 0 /\ NamedBy(file[SectionHead(j)]) = ad

\* The hotspots carrying the label v.
Labelled(v) == {i \in 1..Len(hotspot) : hotspot[i].value = v}

\* The free-text elements that give the name TWY a position.
TwyElements == {k \in 1..Len(FreeText) : FreeText[k].name = TWY /\ FreeText[k].has_position}

\* C6 (as claimed): H and I are not gated: whatever section it stands in, every I
\* line gives a hotspot and an H line gives the hotspots its name resolves to.
C6_HotspotsNotGated ==
    (JustLoaded /\ load_exit = "done") =>
        /\ Cardinality(Labelled(HS1)) = Cardinality(LinesAt(LineI))
        /\ Cardinality(Labelled(HS2)) =
              (IF LinesAt(LineH) # {} THEN Cardinality(TwyElements) ELSE 0)

\* C6 (amended): H and I are gated like every record but A: an I or H line gives
\* its hotspots exactly when it does not follow an A record for an inactive
\* aerodrome.
C6_HotspotsGated ==
    (JustLoaded /\ load_exit = "done") =>
        /\ Cardinality(Labelled(HS1)) =
              Cardinality({j \in LinesAt(LineI) : ~InInactive(j)})
        /\ Cardinality(Labelled(HS2)) =
              (IF \E j \in LinesAt(LineH) : ~InInactive(j)
               THEN Cardinality(TwyElements) ELSE 0)

\* An I line and an H line in an inactive section, and no hotspot after the reload.
C6_Witness ==
    /\ JustLoaded /\ load_exit = "done"
    /\ \E j \in LinesAt(LineI) : InInactive(j)
    /\ \E j \in LinesAt(LineH) : InInactive(j)
    /\ hotspot = << >>

\* C7: C, P and S records in the section of an inactive aerodrome give nothing:
\* no aerodrome that is not active has a stand, and the polygons are at most
\* (after a completed reload: exactly) those of the C lines outside such sections.
C7_InactiveSectionsGiveNothing ==
    /\ \A ad \in DOMAIN stands : ad \notin sector_active => stands[ad] = EmptyMap
    /\ Len(closed) <= Cardinality({j \in LinesAt(LineC) : ~InInactive(j)})
    /\ (JustLoaded /\ load_exit = "done") =>
           Len(closed) = Cardinality({j \in LinesAt(LineC) : ~InInactive(j)})

\* A C line and an S line in an inactive section, a completed reload, no polygon.
C7_Witness ==
    /\ JustLoaded /\ load_exit = "done"
    /\ \E j \in LinesAt(LineC) : InInactive(j)
    /\ \E j \in LinesAt(LineS_Full) : InInactive(j)
    /\ closed = << >>

\* The F lines of the file and the value each sets (0x00ff00ff and 0x1).
FLines == {j \in 1..Len(file) : file[j] \in {LineF, LineF_1}}
FValue(l) == IF l = LineF THEN [hi |-> 255, lo |-> 255] ELSE [hi |-> 0, lo |-> 1]

\* The F lines that do not stand in the section of an inactive aerodrome.
AppliedF == {j \in FLines : ~InInactive(j)}

\* The value of the last line of F before line j; 0 when there is none.
ColourBefore(j, F) ==
    LET before == {i \in F : i < j}
    IN  IF before = {} THEN [hi |-> 0, lo |-> 0] ELSE FValue(file[Greatest(before)])

\* The I and H lines that give hotspots, and the place of an I line's hotspot.
UngatedI == {j \in LinesAt(LineI) : ~InInactive(j)}
UngatedH == {j \in LinesAt(LineH) : ~InInactive(j)}
IRank(j) == Cardinality({i \in UngatedI : i <= j})

\* Every hotspot carries the value of the last line of F before its record.
HotspotColours(F) ==
    /\ \A j \in UngatedI : hotspot[IRank(j)].colour = ColourBefore(j, F)
    /\ UngatedH # {} =>
          \A i \in Labelled(HS2) :
              hotspot[i].colour = ColourBefore(Greatest(UngatedH), F)

\* C8 (as claimed): a hotspot carries the value of the most recent F line before
\* its record, wherever that F line stands relative to the A sections, and 0 when
\* there is none.
C8_ColourOfLastF ==
    (JustLoaded /\ load_exit = "done") => HotspotColours(FLines)

\* C8 (amended): a hotspot carries the value of the most recent F line before its
\* record that does not stand in the section of an inactive aerodrome, and 0 when
\* there is none: F is gated like H and I.
C8_ColourOfLastAppliedF ==
    (JustLoaded /\ load_exit = "done") => HotspotColours(AppliedF)

\* A hotspot whose last F line stands in an inactive section; it has the value
\* of no F line at all.
C8_Witness ==
    /\ JustLoaded /\ load_exit = "done"
    /\ \E j \in UngatedI :
          /\ ColourBefore(j, FLines) = [hi |-> 255, lo |-> 255]
          /\ ColourBefore(j, AppliedF) = [hi |-> 0, lo |-> 0]
          /\ hotspot[IRank(j)].colour = [hi |-> 0, lo |-> 0]

\* The S lines, field by field.
StandLines == {LineS_Full, LineS_Min, LineS_Col, LineS_FF}
FieldsOf(l) ==
    CASE l = LineS_Full -> [fields |-> FieldsS_Full, seps |-> SepsS_Full]
      [] l = LineS_Min -> [fields |-> FieldsS_Min, seps |-> Blanks(2)]
      [] l = LineS_Col -> [fields |-> FieldsS_Col, seps |-> Blanks(3)]
      [] l = LineS_FF -> [fields |-> FieldsS_FF, seps |-> SepsS_FF]

\* What the format says an S line declares: the letter, the digit (0 when there
\* is none) and the text from the fifth field on, its white space kept.
Declares(l) ==
    LET f == FieldsOf(l).fields
        s == FieldsOf(l).seps
        n == Len(f)
    IN  [id |-> f[2],
         letter |-> f[3][1],
         colour |-> IF n < 4 THEN 0 ELSE IndexIn(Digits, f[4][1]) - 1,
         details |-> IF n < 5 THEN << >> ELSE Join(SubSeq(f, 5, n), SubSeq(s, 5, n - 1))]

\* The S lines for stand id in the sections of aerodrome ad, and the P lines.
SLinesFor(ad, id) ==
    {j \in 1..Len(file) : file[j] \in StandLines /\ Declares(file[j]).id = id
                          /\ InSectionOf(j, ad)}
PLinesFor(ad) == {j \in 1..Len(file) : file[j] \in {LineP, LineP_Col} /\ InSectionOf(j, ad)}

\* The stand has the letter, colour and details line l declares.
StandIs(st, l) ==
    /\ st.letter = Declares(l).letter
    /\ st.colour = Declares(l).colour
    /\ st.details = Declares(l).details

\* C9: when S lines for one stand id repeat in one section of an active
\* aerodrome, the stand has the letter, colour and details of the last of them.
C9_LaterStandWins ==
    (JustLoaded /\ load_exit = "done") =>
        \A ad \in sector_active : \A id \in {A1, B2} :
            LET S == SLinesFor(ad, id)
            IN  (Cardinality(S) >= 2 /\ \A a, b \in S : SectionHead(a) = SectionHead(b))
                    => StandIs(stands[ad][id], file[Greatest(S)])

\* C10: a stand declared in a section of an active aerodrome has the letter,
\* colour and details an S line for it declares, and, as long as no P line
\* follows, a proposed letter and colour equal to them.
C10_StandAsDeclared ==
    (JustLoaded /\ load_exit = "done") =>
        \A ad \in sector_active : \A id \in {A1, B2} :
            SLinesFor(ad, id) # {} =>
                /\ \E j \in SLinesFor(ad, id) : StandIs(stands[ad][id], file[j])
                /\ (id = B2 \/ PLinesFor(ad) = {}) =>
                      /\ stands[ad][id].prop_letter = stands[ad][id].letter
                      /\ stands[ad][id].prop_colour = stands[ad][id].colour

\* The file without its P lines.
NotP(l) == l \notin {LineP, LineP_Col}
FileWithoutP == SelectSeq(file, NotP)

\* What the last P line for stand A1 in the sections of aerodrome ad proposes.
Proposed(ad) ==
    LET l == file[Greatest(PLinesFor(ad))]
    IN  [letter |-> "T", colour |-> IF l = LineP_Col THEN 3 ELSE 0]

CLines == {LineC, LineC_One, LineC_None, LineC_Odd, LineC_BadGeo}
CoordTokens(l) ==
    CASE l = LineC -> << N1, E1, N2, E2 >>
      [] l = LineC_One -> << N9, E9 >>
      [] l = LineC_None -> << >>
      [] l = LineC_Odd -> << N1, E1, N2 >>
      [] l = LineC_BadGeo -> << N1, E1, N2, Tok2("x", "x") >>

\* The coordinate a token writes, in degrees; only these tokens write one.
Degrees(tok) == CASE tok \in {N1, E1} -> 1 [] tok \in {N2, E2} -> 2 [] tok \in {N9, E9} -> 9
Written(tok) == tok \in {N1, E1, N2, E2, N9, E9}

\* The format accepts a C line: even count of tokens, every token a coordinate.
Accepted(l) ==
    /\ Len(CoordTokens(l)) % 2 = 0
    /\ \A k \in 1..Len(CoordTokens(l)) : Written(CoordTokens(l)[k])

\* The polygon of an accepted line: its pairs in the order of the line.
PolygonOf(l) ==
    [k \in 1..(Len(CoordTokens(l)) \div 2) |->
        [lat |-> Degrees(CoordTokens(l)[2 * k - 1]), lon |-> Degrees(CoordTokens(l)[2 * k])]]

\* The C lines of the file outside the sections of inactive aerodromes.
UngatedC == {j \in 1..Len(file) : file[j] \in CLines /\ ~InInactive(j)}

\* The polygons of the accepted lines among the first j lines, in file order.
RECURSIVE ClosedUpTo(_)
ClosedUpTo(j) ==
    IF j = 0 THEN << >>
    ELSE IF j \in UngatedC /\ Accepted(file[j])
         THEN Append(ClosedUpTo(j - 1), PolygonOf(file[j]))
         ELSE ClosedUpTo(j - 1)

\* The lines with an even (parity 0) or odd (parity 1) count of tokens after the tag.
OfParity(S, parity) == {j \in S : Len(CoordTokens(file[j])) % 2 = parity}

\* C12 (as claimed): every C line with an even count of tokens after the tag is
\* rejected: each gives a warning and none gives a polygon.
C12_EvenCountRejected ==
    (JustLoaded /\ load_exit = "done") =>
        /\ warned >= Cardinality(OfParity(UngatedC, 0))
        /\ Len(closed) <= Cardinality(UngatedC) - Cardinality(OfParity(UngatedC, 0))

\* C12 (amended): every C line with an odd count of tokens after the tag is
\* rejected: none gives a polygon, and each gives a warning unless it stands in
\* the section of an inactive aerodrome.
C12_OddCountRejected ==
    (JustLoaded /\ load_exit = "done") =>
        /\ warned >= Cardinality(OfParity(UngatedC, 1))
        /\ Len(closed) <= Cardinality(UngatedC) - Cardinality(OfParity(UngatedC, 1))

\* A reload of a file with an odd line and an even line: one warning, one polygon.
C12_Witness ==
    /\ JustLoaded /\ load_exit = "done"
    /\ \E j \in UngatedC : file[j] = LineC_Odd
    /\ \E j \in UngatedC : file[j] = LineC
    /\ warned = 1 /\ Len(closed) = 1

\* C13: the closed polygons after a reload are the polygons of the accepted C
\* lines (even count, every pair a coordinate) in active sections, one each, in
\* file order, their vertices the pairs of the line in order; every other C line
\* in an active section gives a warning and nothing else.
C13_AcceptedExactly ==
    (JustLoaded /\ load_exit = "done") =>
        /\ closed = ClosedUpTo(Len(file))
        /\ warned = Cardinality({j \in UngatedC : ~Accepted(file[j])})

\* A reload of a file with a line whose last pair fails and two accepted lines.
C13_Witness ==
    /\ JustLoaded /\ load_exit = "done"
    /\ \E j \in UngatedC : file[j] = LineC_BadGeo
    /\ closed = << PolygonOf(LineC_One), PolygonOf(LineC) >>
    /\ warned = 1

\* The labels of the hotspots of list that lie within range of the controller.
LabelsWithin(list, range) ==
    {list[i].value : i \in {k \in 1..Len(list) :
                               DistanceTo(list[k].position, ControllerPosition) < range}}

\* Every entry of the index leads from a label to an element of the hotspot list
\* that has the label and did not lie beyond the range the last reload read.
IndexSound ==
    \A label \in DOMAIN hotspot_by_name :
        /\ hotspot_by_name[label] \in 1..Len(hotspot)
        /\ hotspot[hotspot_by_name[label]].value = label
        /\ DistanceTo(hotspot[hotspot_by_name[label]].position, ControllerPosition)
               <= range_at_load

\* C14: whatever the events (reload, change of range, render, click, timer,
\* weather report), after each of them every index entry leads to an element of
\* the hotspot list with its label, within the range of the last reload; and a
\* step that changes the hotspot list leaves the index empty or rebuilt for the
\* new list.
C14_IndexFollowsList ==
    [][/\ IndexSound'
       /\ hotspot' # hotspot =>
             \/ hotspot_by_name' = EmptyMap
             \/ DOMAIN hotspot_by_name' = LabelsWithin(hotspot', range_at_load')]_vars

\* The range has changed since the last reload, a hotspot beyond the old range is
\* in the list and not in the index, another one is in the index.
C14_Witness ==
    /\ last_event = "timer"
    /\ ctr_range # range_at_load
    /\ hotspot_by_name # EmptyMap
    /\ \E i \in 1..Len(hotspot) :
          DistanceTo(hotspot[i].position, ControllerPosition) > range_at_load

\* C15 (as claimed): after a change of the range (the last reload having run to
\* completion) the index holds exactly the labels of the hotspots within the new
\* range.
C15_RangeChangeRebuilds ==
    (last_event = "range" /\ load_exit = "done")
        => DOMAIN hotspot_by_name = LabelsWithin(hotspot, ctr_range)

\* C15 (amended): only a reload rebuilds the index: after a completed reload it
\* holds exactly the labels of the hotspots within the range of that moment, and
\* a change of the range leaves the list and the index as they are.
C15_OnlyReloadRebuilds ==
    [][/\ (last_event' = "load" /\ load_exit' = "done")
             => DOMAIN hotspot_by_name' = LabelsWithin(hotspot', ctr_range')
       /\ ctr_range' # ctr_range
             => (hotspot_by_name' = hotspot_by_name /\ hotspot' = hotspot)]_vars

\* The range has grown to take in a hotspot that the index, built before, lacks.
C15_Witness ==
    /\ last_event = "range"
    /\ hotspot_by_name # EmptyMap
    /\ LabelsWithin(hotspot, ctr_range) # LabelsWithin(hotspot, range_at_load)
    /\ DOMAIN hotspot_by_name = LabelsWithin(hotspot, range_at_load)

\* The free-text elements named TWY that have a position, in the host's order.
IsTwy(el) == el.name = TWY /\ el.has_position
TwyLabels == SelectSeq(FreeText, IsTwy)

\* C16: after the file is read, each free-text label named as a pending H record
\* names it gives one hotspot at the label's position with the record's value
\* and colour, behind all hotspots of I records and in the host's order of the
\* labels; an H record whose name no label carries gives no hotspot and no index
\* entry, and a label no H record names gives nothing.
C16_NamedHotspotsResolved ==
    (JustLoaded /\ load_exit = "done") =>
        LET nI == Cardinality(UngatedI)
            nH == IF UngatedH # {} THEN Len(TwyLabels) ELSE 0
        IN  /\ Len(hotspot) = nI + nH
            /\ \A i \in 1..nI : hotspot[i].value = HS1
            /\ \A n \in 1..nH :
                  hotspot[nI + n] =
                      [position |-> TwyLabels[n].pos, value |-> HS2,
                       colour |-> ColourBefore(Greatest(UngatedH), AppliedF)]
            /\ Labelled(HS3) = {}
            /\ HS3 \notin DOMAIN hotspot_by_name

\* A reload of a file with an I line, an H line that labels resolve and an H line
\* that none resolves: the I hotspot first, then one hotspot for each TWY label.
C16_Witness ==
    /\ JustLoaded /\ load_exit = "done"
    /\ UngatedI # {} /\ UngatedH # {}
    /\ \E j \in 1..Len(file) : file[j] = LineH_None /\ ~InInactive(j)
    /\ Len(hotspot) = 1 + Len(TwyLabels)
    /\ Len(TwyLabels) = 2

\* The reports that carry a Q and four characters behind it.
CompleteMetars == {Metar_Q1013, Metar_Q1015}

\* C17 (as claimed): a report stores the two characters that follow the Q: 10
\* for Q1013.
C17_StoresFirstPair ==
    (last_event = "metar" /\ event_arg.metar = Metar_Q1013)
        => ad_pressure[event_arg.ad] = << "1", "0" >>

\* C17 (amended): a report stores the third and fourth character behind the Q
\* (13 for Q1013, 15 for Q1015) as the setting of its aerodrome, in place of any
\* earlier one, and leaves the settings of the other aerodromes and the
\* snapshots as they are.
C17_StoresLastPair ==
    [][(last_event' = "metar" /\ event_arg'.metar \in CompleteMetars) =>
          /\ ad_pressure' =
                Put(ad_pressure, event_arg'.ad,
                    IF event_arg'.metar = Metar_Q1013 THEN << "1", "3" >> ELSE << "1", "5" >>)
          /\ ac_pressure' = ac_pressure]_vars

\* Q1013 has just been reported for an aerodrome that had 15; the other has 15.
C17_Witness ==
    /\ last_event = "metar" /\ event_arg.metar = Metar_Q1013
    /\ DOMAIN ad_pressure = {EGLL, LSZH}
    /\ ad_pressure[event_arg.ad] = << "1", "3" >>
    /\ \E ad \in SectorAirports \ {event_arg.ad} : ad_pressure[ad] = << "1", "5" >>

\* The pressure item has just been asked for callsign cs.
PressureItemFor(cs) ==
    last_event = "tag" /\ event_arg.code = TAG_ITEM_PRESSURE /\ event_arg.cs = cs

\* The snapshot of cs is there and equals the setting of its aerodrome.
Matches(acp, adp, cs) ==
    cs \in DOMAIN acp /\ Origin(cs) \in DOMAIN adp /\ acp[cs] = adp[Origin(cs)]

\* C18 (as claimed): the item marks the callsign stale when it has no snapshot
\* and when the snapshot differs from the aerodrome's setting (or there is none),
\* and not stale only when the snapshot equals it.
C18_StaleWithoutSnapshot ==
    \A cs \in Callsigns :
        PressureItemFor(cs) =>
            out.colour = IF Matches(ac_pressure, ad_pressure, cs)
                         THEN "TAG_COLOR_REDUNDANT" ELSE "TAG_COLOR_INFORMATION"

\* C18 (amended): with no snapshot the item is empty and marks nothing; with a
\* snapshot it shows it and marks it stale when it differs from the aerodrome's
\* setting (or there is none), not stale only when it equals it.
C18_BlankWithoutSnapshot ==
    \A cs \in Callsigns :
        PressureItemFor(cs) =>
            IF cs \notin DOMAIN ac_pressure
            THEN out.string = << >> /\ out.colour = "untouched"
            ELSE /\ out.string # << >>
                 /\ out.colour = IF Matches(ac_pressure, ad_pressure, cs)
                                 THEN "TAG_COLOR_REDUNDANT" ELSE "TAG_COLOR_INFORMATION"

\* The item has been asked for a callsign whose snapshot 13 no longer equals the
\* aerodrome's 15.
C18_Witness ==
    \E cs \in Callsigns :
        /\ PressureItemFor(cs)
        /\ cs \in DOMAIN ac_pressure /\ ac_pressure[cs] = << "1", "3" >>
        /\ Origin(cs) \in DOMAIN ad_pressure /\ ad_pressure[Origin(cs)] = << "1", "5" >>
        /\ out.colour = "TAG_COLOR_INFORMATION"

\* The colour the pressure item would have for cs.
Shown(acp, adp, cs) == TagItemPressure(acp, adp, cs).colour

\* The function code has just been called for callsign cs.
Called(code, cs) ==
    last_event' = "function" /\ event_arg'.code = code /\ event_arg'.cs = cs

\* A report for the aerodrome ad has just come in.
Reported(ad) == last_event' = "metar" /\ event_arg'.ad = ad

\* C19: snapshot copies the setting of the origin into the callsign's record and
\* the callsign is then not stale; without a setting it changes nothing; clear
\* removes the record; a callsign that is not stale is not marked stale after
\* any event but a report for its origin (it stays marked not stale, or is left
\* unmarked by its own clear); after a report for the origin that stores another
\* value than the snapshot the callsign is stale.
C19_SnapshotProtocol ==
    [][\A cs \in Callsigns :
          /\ Called(TAG_FUNC_PRESSURE_UPDATE, cs) =>
                IF Origin(cs) \in DOMAIN ad_pressure
                THEN /\ ac_pressure' = Put(ac_pressure, cs, ad_pressure[Origin(cs)])
                     /\ Shown(ac_pressure', ad_pressure', cs) = "TAG_COLOR_REDUNDANT"
                ELSE ac_pressure' = ac_pressure
          /\ Called(TAG_FUNC_PRESSURE_RESET, cs) =>
                ac_pressure' = Remove(ac_pressure, cs)
          /\ ( /\ Shown(ac_pressure, ad_pressure, cs) = "TAG_COLOR_REDUNDANT"
               /\ ~Reported(Origin(cs)) )
                => Shown(ac_pressure', ad_pressure', cs) =
                      IF Called(TAG_FUNC_PRESSURE_RESET, cs)
                      THEN "untouched" ELSE "TAG_COLOR_REDUNDANT"
          /\ ( /\ cs \in DOMAIN ac_pressure
               /\ Reported(Origin(cs))
               /\ Origin(cs) \in DOMAIN ad_pressure'
               /\ ad_pressure'[Origin(cs)] # ac_pressure[cs] )
                => Shown(ac_pressure', ad_pressure', cs) = "TAG_COLOR_INFORMATION"]_vars

\* SWR123 took the snapshot 13 and a later report has made LSZH 15.
C19_Witness ==
    /\ last_event = "metar" /\ event_arg.ad = LSZH /\ event_arg.metar = Metar_Q1015
    /\ SWR123 \in DOMAIN ac_pressure /\ ac_pressure[SWR123] = << "1", "3" >>
    /\ ad_pressure[LSZH] = << "1", "5" >>
    /\ Shown(ac_pressure, ad_pressure, SWR123) = "TAG_COLOR_INFORMATION"

\* C20: a report without a Q, or with fewer than four characters behind it,
\* changes neither the settings nor the snapshots and raises no fault.
C20_MalformedReportSkipped ==
    [][(last_event' = "metar" /\ event_arg'.metar \notin CompleteMetars) =>
          /\ ad_pressure' = ad_pressure
          /\ ac_pressure' = ac_pressure
          /\ running']_vars

\* C21: a timer tick removes from the dehighlight set exactly the callsigns whose
\* flight plan is not valid or not in TAXI at the tick; no event other than a
\* tick or the callsign's own toggle removes a member, so a member that stays in
\* TAXI is kept by every tick and one that is out of TAXI goes with the next.
C21_TickRemovesNonTaxi ==
    [][/\ last_event' = "timer" =>
             dehighlight' = {cs \in dehighlight : ground[cs] = "TAXI"}
       /\ \A cs \in dehighlight :
             cs \notin dehighlight' =>
                \/ last_event' = "timer" /\ ground[cs] # "TAXI"
                \/ Called(TAG_FUNC_DEHIGHLIGHT, cs)]_vars

\* After a tick a callsign in TAXI is still dehighlighted and one that has left
\* TAXI is not.
C21_Witness ==
    /\ last_event = "timer"
    /\ \E cs \in dehighlight : ground[cs] = "TAXI"
    /\ \E cs \in Callsigns \ dehighlight : ground[cs] = "STUP"

C22_NoEmptyPolygon == \A i \in 1..Len(closed) : Len(closed[i]) >= 1

\* C23: every stand of the table has colour and propeller colour in 0..7,
\* whatever the file says, and the stand tag item takes its colour from one of
\* the eight entries of the palette.
C23_ColourInPalette ==
    /\ \A ad \in DOMAIN stands : \A st \in DOMAIN stands[ad] :
          stands[ad][st].colour \in 0..7 /\ stands[ad][st].prop_colour \in 0..7
    /\ (last_event = "tag" /\ out.kind = "tag" /\ out.colour = "TAG_COLOR_RGB_DEFINED")
          => \E i \in 1..Len(COLOUR_STAND) : out.rgb = COLOUR_STAND[i]

\* The last applied F line before line j is the line l.
LastAppliedIs(j, l) ==
    LET before == {i \in AppliedF : i < j}
    IN  before # {} /\ file[Greatest(before)] = l

\* C24 (as claimed): `F ff00ff` followed by an I record gives a hotspot of colour
\* 0xFFFF00FF.
C24_ColourOpaque ==
    (JustLoaded /\ load_exit = "done") =>
        \A j \in UngatedI :
            LastAppliedIs(j, LineF) =>
                hotspot[IRank(j)].colour = [hi |-> 65535, lo |-> 255]

\* C24 (amended): `F ff00ff` followed by an I record gives a hotspot of colour
\* 0x00FF00FF: the number as written, base 16, in 32 bits, with nothing added
\* for the top byte.
C24_ColourAsWritten ==
    (JustLoaded /\ load_exit = "done") =>
        \A j \in UngatedI :
            LastAppliedIs(j, LineF) =>
                hotspot[IRank(j)].colour = [hi |-> 255, lo |-> 255]

\* A file that is `F ff00ff` and an I record has been loaded.
C24_Witness ==
    /\ JustLoaded /\ load_exit = "done"
    /\ file = << LineF, LineI >>
    /\ Len(hotspot) = 1 /\ hotspot[1].value = HS1
    /\ hotspot[1].colour = [hi |-> 255, lo |-> 255]

\* The place of the first A record of the file; behind its end when it has none.
FirstA ==
    LET heads == {i \in 1..Len(file) : IsA(file[i])}
    IN  IF heads = {} THEN Len(file) + 1 ELSE CHOOSE i \in heads : \A k \in heads : i <= k

\* C25: an S or P record in front of the first A record is applied to no table:
\* a file that has such records, and from its first A record on only A, C and
\* well-formed S records, is read to its end without a fault.
C25_StandBeforeAerodromeSkipped ==
    ( /\ JustLoaded
      /\ \E j \in 1..(FirstA - 1) : file[j] \in {LineS_Min, LineS_Col, LineP, LineP_Col}
      /\ \A j \in 1..(FirstA - 1) :
            file[j] \in {LineS_Min, LineS_Col, LineP, LineP_Col, LineC}
      /\ \A j \in FirstA..Len(file) :
            file[j] \in {LineA_EGLL, LineA_LSZH, LineS_Min, LineS_Col, LineC} )
        => /\ load_exit = "done"
           /\ lines_read = Len(file)
           /\ running

====
